---- MODULE Spec2Model ----
(***************************************************************************)
(* Model of eosio::filter_mongo_db_plugin                                  *)
(* (plugin/filter_mongo_db_plugin/filter_mongo_db_plugin.cpp).             *)
(*                                                                         *)
(* Two threads: the main thread (the owner of the plugin, which is also    *)
(* the thread on which the chain delivers accepted_transaction) and the    *)
(* consume thread started by plugin_startup.  The document store is the    *)
(* pair of collections "accounts" and "filter".                            *)
(***************************************************************************)
EXTENDS Integers, Sequences, FiniteSets, TLC

----------------------------------------------------------------------------
(* Bounds *)

\* events delivered by the chain in one run of the queue specification
MaxEvents == 3
\* events delivered by the chain in one run of the fair queue specification
MaxFairEvents == 2
\* events delivered in one run of the transaction-processing specification
MaxTxs == 2
\* actions in one transaction
MaxActions == 2
\* largest configured --filter-mongodb-queue-size
MaxQueueSize == 1
\* largest chain height and largest configured --filter-mongodb-block-start
MaxHeight == 1

----------------------------------------------------------------------------
(* Program constants *)

\* chain::config::system_account_name
system_account_name == "eosio"
newaccount == "newaccount"
setabi == "setabi"
\* int sleep_time = 100, and the step by which it is adjusted
SleepStep == 100

----------------------------------------------------------------------------
(* Data: actions, transactions, events *)

\* An action: the acting account, the action name, and what its binary
\* payload turns out to be when the code unpacks it:
\*   payload  "ok"     the payload unpacks under the layout the code tries
\*            "bad"    unpacking throws fc::exception
\*            "nojson" it unpacks, but bsoncxx::from_json of its rendering throws
\*   arg      newaccount.name / setabi.account (when the payload unpacks)
\*   abi_raw  setabi.abi: "ok" unpacks to abi_def, "garbage" does not
\*            (fc::exception), "nojson" unpacks but cannot be stored
\*   abi      the action names the unpacked abi_def declares
Act(acct, nm, pl, arg, raw, abi) ==
    [account |-> acct, name |-> nm, payload |-> pl, arg |-> arg,
     abi_raw |-> raw, abi |-> abi]

AbiT == {"transfer"}

NewBob       == Act(system_account_name, newaccount, "ok", "bob", "ok", {})
NewNoJson    == Act(system_account_name, newaccount, "nojson", "alice", "ok", {})
NewBad       == Act(system_account_name, newaccount, "bad", "", "ok", {})
SetAbiBob    == Act(system_account_name, setabi, "ok", "bob", "ok", AbiT)
SetAbiAlice  == Act(system_account_name, setabi, "ok", "alice", "ok", AbiT)
SetAbiGarb   == Act(system_account_name, setabi, "ok", "alice", "garbage", {})
SetAbiNoJson == Act(system_account_name, setabi, "ok", "bob", "nojson", AbiT)
SetAbiBad    == Act(system_account_name, setabi, "bad", "", "ok", {})
AliceXfer    == Act("alice", "transfer", "ok", "", "ok", {})
AliceBadXfer == Act("alice", "transfer", "bad", "", "ok", {})
BobXfer      == Act("bob", "transfer", "ok", "", "ok", {})
BobIssue     == Act("bob", "issue", "ok", "", "ok", {})

\* the actions of the transaction-processing specification
TxActions == {NewBob, SetAbiAlice, SetAbiGarb, AliceXfer, BobXfer}

\* the actions of the decoding specification
AllActions == {NewBob, NewNoJson, NewBad, SetAbiBob, SetAbiAlice, SetAbiGarb,
               SetAbiNoJson, SetAbiBad, AliceXfer, AliceBadXfer, BobXfer,
               BobIssue}


SeqsUpTo(S, n) == UNION {[1..k -> S] : k \in 0..n}

\* what happens in the store while the transaction is processed:
\*   "none"         every store call succeeds
\*   "bulk_throw"   bulk_filter.execute() throws
\*   "bulk_fail"    bulk_filter.execute() returns no result
Faults == {"none", "bulk_throw", "bulk_fail"}

\* a transaction_metadata_ptr: trx id, the actions, and (not seen by the
\* plugin) the chain height at which it was accepted
Event(id, acts, fault, h) ==
    [id |-> id, actions |-> acts, fault |-> fault, height |-> h]

NoEvent == Event(0, <<>>, "none", 0)

----------------------------------------------------------------------------
(* The accounts collection: a sequence of documents; the position of a    *)
(* document is its _id.                                                    *)

AccountDoc(n) == [name |-> n, has_abi |-> FALSE, abi |-> {}]

\* find_one by name: the _id of the first document with that name, 0 if none
find_account(accts, n) ==
    IF \E i \in 1..Len(accts) : accts[i].name = n
    THEN CHOOSE i \in 1..Len(accts) :
            /\ accts[i].name = n
            /\ \A j \in 1..(i-1) : accts[j].name # n
    ELSE 0

\* an insert that replaces the documents of the same name
insert_one_replacing(accts, n) ==
    Append(SelectSeq(accts, LAMBDA d : d.name # n), AccountDoc(n))

insert_one(accts, n) == Append(accts, AccountDoc(n))

\* update_one by _id with $set abi
update_one(accts, i, abi) ==
    [accts EXCEPT ![i] = [name |-> accts[i].name, has_abi |-> TRUE, abi |-> abi]]

\* update_account whose setabi branch does not insert a missing account
update_account_known(accts, act) ==
    IF act.account # system_account_name
    THEN accts
    ELSE IF act.name = newaccount
    THEN IF act.payload = "bad" THEN accts ELSE insert_one(accts, act.arg)
    ELSE IF act.name = setabi
    THEN LET i == find_account(accts, act.arg)
         IN IF act.payload = "bad" \/ i = 0 \/ act.abi_raw # "ok" THEN accts
            ELSE update_one(accts, i, act.abi)
    ELSE accts

\* update_account saving an empty abi when the abi bytes do not unpack
update_account_saves_empty(accts, act) ==
    IF act.account # system_account_name
    THEN accts
    ELSE IF act.name = newaccount
    THEN IF act.payload = "bad" THEN accts ELSE insert_one(accts, act.arg)
    ELSE IF act.name = setabi
    THEN IF act.payload = "bad"
         THEN accts
         ELSE LET a1 == IF find_account(accts, act.arg) = 0
                        THEN insert_one(accts, act.arg) ELSE accts
                  i  == find_account(a1, act.arg)
              IN IF i = 0 \/ act.abi_raw = "nojson" THEN a1
                 ELSE update_one(a1, i, IF act.abi_raw = "ok" THEN act.abi ELSE {})
    ELSE accts

\* update_account, with the catch (...) of process_action around it
update_account(accts, act) ==
    IF act.account # system_account_name
    THEN accts
    ELSE IF act.name = newaccount
    THEN \* data_as<newaccount> throws fc::exception: skip account creation
         IF act.payload = "bad" THEN accts ELSE insert_one(accts, act.arg)
    ELSE IF act.name = setabi
    THEN IF act.payload = "bad"
         THEN accts
         ELSE LET a1 == IF find_account(accts, act.arg) = 0
                        THEN insert_one(accts, act.arg) ELSE accts
                  i  == find_account(a1, act.arg)
              IN IF i = 0 THEN a1
                 \* unpack<abi_def> throws fc::exception (caught inside), or
                 \* from_json throws (caught by process_action): abi not saved
                 ELSE IF act.abi_raw # "ok" THEN a1
                 ELSE update_one(a1, i, act.abi)
    ELSE accts

----------------------------------------------------------------------------
(* add_data: the payload fields appended to the action document *)

Field(key, kind, acct) == [key |-> key, kind |-> kind, account |-> acct]

hex_data == Field("hex_data", "hex", "")

\* a tier of add_data: the fields it appended, whether it returned, and
\* whether an exception left the outer try block
Tier(fields, ret, exc) == [fields |-> fields, ret |-> ret, exc |-> exc]

\* special_tier appending data without abi_def when the abi does not unpack
special_tier_partial(act) ==
    IF act.account # system_account_name THEN Tier(<<>>, FALSE, FALSE)
    ELSE IF act.name = newaccount
    THEN IF act.payload = "bad" THEN Tier(<<>>, FALSE, TRUE)
         ELSE IF act.payload = "ok"
         THEN Tier(<<Field("data", "newaccount", act.arg)>>, TRUE, FALSE)
         ELSE Tier(<<>>, FALSE, FALSE)
    ELSE IF act.name = setabi
    THEN IF act.payload = "bad" THEN Tier(<<>>, FALSE, TRUE)
         ELSE IF act.abi_raw \in {"ok", "garbage"}
         THEN Tier(<<Field("data", "setabi", act.arg)>>, TRUE, FALSE)
         ELSE Tier(<<>>, FALSE, TRUE)
    ELSE Tier(<<>>, FALSE, FALSE)

\* lines 301-327: the system account's newaccount and setabi
special_tier(act) ==
    IF act.account # system_account_name THEN Tier(<<>>, FALSE, FALSE)
    ELSE IF act.name = newaccount
    THEN IF act.payload = "bad" THEN Tier(<<>>, FALSE, TRUE)
         ELSE IF act.payload = "ok"
         THEN Tier(<<Field("data", "newaccount", act.arg)>>, TRUE, FALSE)
         ELSE Tier(<<>>, FALSE, FALSE)      \* catch (...) at 309, falls through
    ELSE IF act.name = setabi
    THEN IF act.payload = "bad" THEN Tier(<<>>, FALSE, TRUE)
         ELSE IF act.abi_raw = "ok"
         THEN Tier(<<Field("data", "setabi", act.arg)>>, TRUE, FALSE)
         ELSE IF act.abi_raw = "garbage"
         THEN Tier(<<>>, FALSE, FALSE)      \* catch (fc::exception) at 323
         ELSE Tier(<<>>, FALSE, TRUE)       \* bsoncxx exception leaves the try
    ELSE Tier(<<>>, FALSE, FALSE)

\* generic_tier decoding whatever fits, with or without a stored abi
generic_tier_any(accts, act) ==
    IF find_account(accts, act.account) # 0 /\ act.payload = "ok"
    THEN Tier(<<Field("data", "generic", act.account)>>, TRUE, FALSE)
    ELSE Tier(<<>>, FALSE, FALSE)

\* lines 328-353: decode with the acting account's stored abi
generic_tier(accts, act) ==
    LET i == find_account(accts, act.account) IN
    IF i = 0 THEN Tier(<<>>, FALSE, FALSE)
    ELSE LET abi == IF accts[i].has_abi THEN accts[i].abi ELSE {} IN
         \* get_action_type / binary_to_variant throw unless the type is
         \* declared and the bytes fit it; from_json may throw after that
         IF act.name \in abi /\ act.payload = "ok"
         THEN Tier(<<Field("data", "generic", act.account)>>, TRUE, FALSE)
         ELSE Tier(<<>>, FALSE, FALSE)

\* add_data with the return statements after the "data" appends missing
add_data_fallthrough(accts, act) ==
    LET s == special_tier(act)
        g == IF s.exc THEN Tier(<<>>, FALSE, FALSE) ELSE generic_tier(accts, act)
    IN s.fields \o g.fields \o <<hex_data>>

add_data(accts, act) ==
    LET s == special_tier(act) IN
    IF s.ret THEN s.fields
    ELSE LET g == IF s.exc THEN Tier(<<>>, FALSE, FALSE)
                  ELSE generic_tier(accts, act)
         IN IF g.ret THEN s.fields \o g.fields
            \* if anything went wrong just store raw hex_data
            ELSE s.fields \o g.fields \o <<hex_data>>

----------------------------------------------------------------------------
(* _process_accepted_transaction *)

\* std::find over the vector filter_contract
in_filter(fc, n) == \E i \in 1..Len(fc) : fc[i] = n

ActionDoc(num, trx_id, act, payload) ==
    [action_num |-> num, trx_id |-> trx_id, cfa |-> FALSE,
     account |-> act.account, name |-> act.name, payload |-> payload]

\* the locals of _process_accepted_transaction that process_action captures
ProcState(accts) ==
    [accounts |-> accts, action_array |-> <<>>, bulk_filter |-> <<>>,
     actions_to_write |-> FALSE, filter_to_write |-> FALSE, act_num |-> 0]

\* append_action without the ++act_num of line 451
append_action_same_num(st, accts, doc, match) ==
    [accounts |-> accts,
     action_array |-> Append(st.action_array, doc),
     bulk_filter |-> IF match THEN Append(st.bulk_filter, doc) ELSE st.bulk_filter,
     actions_to_write |-> TRUE,
     filter_to_write |-> (st.filter_to_write \/ match),
     act_num |-> st.act_num]

\* lines 436-449: append the document, and to the bulk write on a match
append_action(st, accts, doc, match) ==
    [accounts |-> accts,
     action_array |-> Append(st.action_array, doc),
     bulk_filter |-> IF match THEN Append(st.bulk_filter, doc) ELSE st.bulk_filter,
     actions_to_write |-> TRUE,
     filter_to_write |-> (st.filter_to_write \/ match),
     act_num |-> st.act_num + 1]

\* lines 415-449 once update_account has run
build_action(reached, fc, trx_id, st, act, accts) ==
    IF reached
    THEN append_action(st, accts,
                       ActionDoc(st.act_num, trx_id, act, add_data(accts, act)),
                       in_filter(fc, act.account))
    ELSE [st EXCEPT !.accounts = accts, !.act_num = st.act_num + 1]

\* process_action with update_account under the start_block_reached test
process_action_gated(reached, fc, trx_id, st, act) ==
    build_action(reached, fc, trx_id, st, act,
                 IF reached THEN update_account(st.accounts, act) ELSE st.accounts)

\* process_action with every document appended to the bulk write
process_action_nofilter(reached, fc, trx_id, st, act) ==
    build_action(reached, <<act.account>>, trx_id, st, act,
                 update_account(st.accounts, act))

\* the lambda process_action (lines 414-453)
process_action(reached, fc, trx_id, st, act) ==
    build_action(reached, fc, trx_id, st, act, update_account(st.accounts, act))

\* for( const auto& act : trx.actions ) process_action(...)
RECURSIVE process_actions(_, _, _, _, _)
process_actions(reached, fc, trx_id, st, acts) ==
    IF acts = <<>> THEN st
    ELSE \* the locals after the first action, evaluated once
         CHOOSE r \in {process_actions(reached, fc, trx_id, st2, Tail(acts)) :
                        st2 \in {process_action(reached, fc, trx_id, st, Head(acts))}} :
            TRUE

\* The outcome of _process_accepted_transaction: the accounts collection
\* afterwards, the documents built, the bulk writes issued (each the
\* sequence of documents appended to it), the documents the store took,
\* whether execute() gave a result and whether an exception left the call.
Outcome(accts, arr, writes, stored, ok, threw) ==
    [accounts |-> accts, action_array |-> arr, writes |-> writes,
     stored |-> stored, result_ok |-> ok, threw |-> threw]

\* lines 464-479, with the locals as the action loop left them
execute_bulk(reached, fault, st) ==
    IF reached /\ st.actions_to_write /\ st.filter_to_write
    THEN IF fault = "bulk_throw"
         THEN Outcome(st.accounts, st.action_array, <<st.bulk_filter>>,
                      <<>>, TRUE, TRUE)
         ELSE IF fault = "bulk_fail"
         THEN Outcome(st.accounts, st.action_array, <<st.bulk_filter>>,
                      <<>>, FALSE, FALSE)
         ELSE Outcome(st.accounts, st.action_array, <<st.bulk_filter>>,
                      st.bulk_filter, TRUE, FALSE)
    ELSE Outcome(st.accounts, st.action_array, <<>>, <<>>, TRUE, FALSE)

\* the call putting the accounts collection back when execute() fails
_process_accepted_transaction_rollback(reached, fc, accts, ev) ==
    LET o == execute_bulk(reached, ev.fault,
                          process_actions(reached, fc, ev.id, ProcState(accts),
                                          ev.actions))
    IN IF o.result_ok THEN o ELSE [o EXCEPT !.accounts = accts]

_process_accepted_transaction(reached, fc, accts, ev) ==
    execute_bulk(reached, ev.fault,
                 process_actions(reached, fc, ev.id, ProcState(accts), ev.actions))

\* the result of process_accepted_transaction: the outcome, whether an
\* exception was caught and logged, and whether one escaped to the caller
Processed(o, caught, escaped) == [out |-> o, caught |-> caught, escaped |-> escaped]

\* the call without catch clauses: the exception leaves
catch_none(o) == Processed(o, FALSE, o.threw)

\* lines 376-382: the catch clauses around the call
catch_all(o) == Processed(o, o.threw, FALSE)

process_accepted_transaction(reached, fc, accts, ev) ==
    catch_all(_process_accepted_transaction(reached, fc, accts, ev))

----------------------------------------------------------------------------
(* State *)

VARIABLES
    options,                    \* the variables_map given to plugin_initialize
    configured, wipe_database_on_startup, start_block_num, start_block_reached,
    filter_contract, queue_size,
    accepted_transaction_connection,    \* TRUE while the signal is connected
    done, startup,
    accounts, filter_coll,      \* the two collections of the store
    transaction_metadata_queue, transaction_metadata_process_queue,
    mtx,                        \* "none", or the thread that holds the mutex
    main_pc,                    \* position of the main thread
    e, sleep_time, last_queue_size,     \* locals of queue()
    consume_pc,                 \* position of the consume thread
    transaction_metadata_size,  \* local of consume_blocks
    head_block_num,             \* the chain's height (not read by the plugin)
    next_id,                    \* id of the next transaction the chain accepts
    enqueued,                   \* history: ids in the order of emplace_back
    processed,                  \* history: calls of process_accepted_transaction
    last,                       \* history: the latest such call in detail
    sleeps,                     \* history: sleep_for calls of the current queue()
    blocked_pushes,             \* history: ids appended after a sleep
    delays,                     \* history: per sleep of queue(), the length
                                \* read at line 111 and the sleep_time chosen
    exit_kind,                  \* history: how consume_blocks ended
    pending_at_done             \* history: events pending when done was set

cfg_vars   == <<options, configured, wipe_database_on_startup, start_block_num,
               start_block_reached, filter_contract, queue_size,
               accepted_transaction_connection>>
store_vars == <<accounts, filter_coll>>
queue_vars == <<transaction_metadata_queue, transaction_metadata_process_queue>>
main_vars  == <<main_pc, e, sleep_time, last_queue_size>>
cons_vars  == <<consume_pc, transaction_metadata_size>>
env_vars   == <<head_block_num, next_id>>
proc_hist  == <<processed, last>>
queue_hist == <<enqueued, sleeps, blocked_pushes, delays>>
exit_hist  == <<exit_kind, pending_at_done>>

vars == <<cfg_vars, done, startup, store_vars, queue_vars, mtx, main_vars,
          cons_vars, env_vars, proc_hist, queue_hist, exit_hist>>

\* what the store may hold before the plugin is initialized
InitialAccounts == {<<>>, <<AccountDoc("bob")>>}

\* a document of the filter collection written by a previous run
PreviousDoc == [trx_id |-> 0, action_num |-> 0]

\* the filter collection that goes with an accounts collection of
\* InitialAccounts: a store that holds accounts holds a document too
InitialFilter(accts) == IF accts = <<>> THEN <<>> ELSE <<PreviousDoc>>

Options(uri, replay, wipe, qs, start, fc) ==
    [uri |-> uri, replay |-> replay, wipe |-> wipe, queue_size |-> qs,
     block_start |-> start, filter_contract |-> fc]

NoLast == [ev |-> NoEvent, by |-> "none", reached |-> FALSE, pre |-> <<>>,
           res |-> Processed(Outcome(<<>>, <<>>, <<>>, <<>>, TRUE, FALSE),
                             FALSE, FALSE)]

\* the members plugin_initialize sets, as the constructor leaves them
\* (lines 52, 61-66, 73)
ConstructedConfig ==
    /\ configured = FALSE
    /\ wipe_database_on_startup = FALSE
    /\ start_block_num = 0
    /\ start_block_reached = FALSE
    /\ filter_contract = <<>>
    /\ queue_size = 0
    /\ accepted_transaction_connection = FALSE

\* the other members after filter_mongo_db_plugin() (lines 74-83, 483-487),
\* no thread started, nothing accepted yet
ConstructedRest ==
    /\ done = FALSE
    /\ startup = TRUE
    /\ transaction_metadata_queue = <<>>
    /\ transaction_metadata_process_queue = <<>>
    /\ mtx = "none"
    /\ e = NoEvent
    /\ sleep_time = 0
    /\ last_queue_size = 0
    /\ consume_pc = "not_started"
    /\ transaction_metadata_size = 0
    /\ head_block_num = 0
    /\ next_id = 1
    /\ enqueued = <<>>
    /\ processed = <<>>
    /\ last = NoLast
    /\ sleeps = 0
    /\ blocked_pushes = {}
    /\ delays = <<>>
    /\ exit_kind = "none"
    /\ pending_at_done = 0

----------------------------------------------------------------------------
(* Condition variable *)

\* condition.notify_one(): wakes the consume thread if it is blocked in wait
notify_one(pc) == IF pc = "c_blocked" THEN "c_wake" ELSE pc

----------------------------------------------------------------------------
(* plugin_initialize, wipe_database, init *)

\* init() inserting the system account whenever it is not found
init_if_absent(accts) ==
    IF find_account(accts, system_account_name) = 0
    THEN insert_one(accts, system_account_name) ELSE accts

\* init(): insert the system account if the collection is empty
init(accts) ==
    IF Len(accts) = 0 THEN insert_one(accts, system_account_name) ELSE accts

\* lines 573-580: a replay option without filter-mongodb-wipe
replay_refused(o) == o.replay /\ ~o.wipe

\* wipe_database_on_startup set by filter-mongodb-wipe alone
wipe_unconfirmed(o) == o.wipe

\* lines 573-576: wipe_database_on_startup as plugin_initialize sets it
wipe_confirmed(o) == o.replay /\ o.wipe

plugin_initialize ==
    /\ main_pc = "constructed"
    /\ IF ~options.uri
       THEN /\ main_pc' = "initialized"
            /\ UNCHANGED <<configured, wipe_database_on_startup, start_block_num,
                           start_block_reached, filter_contract, queue_size,
                           accepted_transaction_connection, store_vars>>
       ELSE IF replay_refused(options)
       THEN \* FC_ASSERT( false, ... ), rethrown by FC_LOG_AND_RETHROW
            /\ configured' = TRUE
            /\ main_pc' = "init_failed"
            /\ UNCHANGED <<wipe_database_on_startup, start_block_num,
                           start_block_reached, filter_contract, queue_size,
                           accepted_transaction_connection, store_vars>>
       ELSE /\ configured' = TRUE
            /\ wipe_database_on_startup' = wipe_confirmed(options)
            /\ queue_size' = options.queue_size
            /\ start_block_num' = options.block_start
            /\ start_block_reached' = (options.block_start = 0)
            /\ filter_contract' = options.filter_contract
            /\ accepted_transaction_connection' = TRUE
            \* wipe_database() if wipe_database_on_startup, then init()
            /\ accounts' = init(IF wipe_database_on_startup'
                                THEN <<>> ELSE accounts)
            /\ filter_coll' = IF wipe_database_on_startup'
                              THEN <<>> ELSE filter_coll
            /\ main_pc' = "initialized"
    /\ UNCHANGED <<options, done, startup, queue_vars, mtx, e, sleep_time,
                   last_queue_size, cons_vars, env_vars, proc_hist, queue_hist,
                   exit_hist>>

----------------------------------------------------------------------------
(* plugin_startup *)

\* line 635: my->consume_thread = boost::thread(...)
plugin_startup ==
    /\ main_pc = "initialized"
    /\ IF configured
       THEN /\ consume_pc' = "c_lock"
            /\ main_pc' = "startup_flag"
       ELSE /\ main_pc' = "running"
            /\ UNCHANGED consume_pc
    /\ UNCHANGED <<cfg_vars, done, startup, store_vars, queue_vars, mtx, e,
                   sleep_time, last_queue_size, transaction_metadata_size,
                   env_vars, proc_hist, queue_hist, exit_hist>>

\* plugin_startup returning with startup still set
plugin_startup_flag_kept ==
    /\ main_pc = "startup_flag"
    /\ main_pc' = "running"
    /\ UNCHANGED <<cfg_vars, done, startup, store_vars, queue_vars, mtx, e,
                   sleep_time, last_queue_size, cons_vars, env_vars, proc_hist,
                   queue_hist, exit_hist>>

\* line 637: my->startup = false
plugin_startup_flag ==
    /\ main_pc = "startup_flag"
    /\ startup' = FALSE
    /\ main_pc' = "running"
    /\ UNCHANGED <<cfg_vars, done, store_vars, queue_vars, mtx, e, sleep_time,
                   last_queue_size, cons_vars, env_vars, proc_hist, queue_hist,
                   exit_hist>>

----------------------------------------------------------------------------
(* accepted_transaction and queue() : main thread *)

\* the call of process_accepted_transaction on ev in the current state
ProcResult(ev) ==
    process_accepted_transaction(start_block_reached, filter_contract, accounts, ev)

DocKey(d) == [trx_id |-> d.trx_id, action_num |-> d.action_num]

RECURSIVE DocKeys(_)
DocKeys(ds) == IF ds = <<>> THEN <<>> ELSE <<DocKey(Head(ds))>> \o DocKeys(Tail(ds))

\* the effect of a call with result r on the store, and its record in the
\* history
Record(by, ev, r) ==
    /\ accounts' = r.out.accounts
    /\ filter_coll' = filter_coll \o DocKeys(r.out.stored)
    /\ processed' = Append(processed,
                           [id |-> ev.id, by |-> by, caught |-> r.caught,
                            escaped |-> r.escaped, startup |-> startup])
    /\ last' = [ev |-> ev, by |-> by, reached |-> start_block_reached,
                pre |-> accounts, res |-> r]

Process(by, ev) == \E r \in {ProcResult(ev)} : Record(by, ev, r)

\* line 130 with the test of startup dropped: always queue
process_inline_never(flag) == FALSE

\* line 130: if( startup )
process_inline(flag) == flag

\* lines 128-143; the chain has reached ev.height when it accepts ev
accepted_transaction(ev) ==
    /\ accepted_transaction_connection
    /\ main_pc \in {"initialized", "running"}
    /\ ev.id = next_id
    /\ ev.height >= head_block_num
    /\ next_id' = next_id + 1
    /\ head_block_num' = ev.height
    /\ IF process_inline(startup)
       THEN \* whatever escapes process_accepted_transaction is caught here
            /\ Process("main", ev)
            /\ UNCHANGED <<main_vars, queue_hist>>
       ELSE /\ e' = ev
            /\ main_pc' = "q_lock"
            /\ sleep_time' = SleepStep
            /\ last_queue_size' = 0
            /\ sleeps' = 0
            /\ UNCHANGED <<store_vars, proc_hist, enqueued, blocked_pushes, delays>>
    /\ UNCHANGED <<cfg_vars, done, startup, queue_vars, mtx, cons_vars, exit_hist>>

\* lines 107-108: take the lock, compare the queue's length with the target
queue_lock ==
    /\ main_pc = "q_lock"
    /\ mtx = "none"
    /\ mtx' = "main"
    /\ main_pc' = IF Len(transaction_metadata_queue) > queue_size
                  THEN "q_bp_unlock" ELSE "q_emplace"
    /\ UNCHANGED <<cfg_vars, done, startup, store_vars, queue_vars, e, sleep_time,
                   last_queue_size, cons_vars, env_vars, proc_hist, queue_hist,
                   exit_hist>>

\* line 109
queue_bp_unlock ==
    /\ main_pc = "q_bp_unlock"
    /\ mtx' = "none"
    /\ main_pc' = "q_bp_notify"
    /\ UNCHANGED <<cfg_vars, done, startup, store_vars, queue_vars, e, sleep_time,
                   last_queue_size, cons_vars, env_vars, proc_hist, queue_hist,
                   exit_hist>>

\* line 110
queue_bp_notify ==
    /\ main_pc = "q_bp_notify"
    /\ consume_pc' = notify_one(consume_pc)
    /\ main_pc' = "q_bp_compare"
    /\ UNCHANGED <<cfg_vars, done, startup, store_vars, queue_vars, mtx, e,
                   sleep_time, last_queue_size, transaction_metadata_size,
                   env_vars, proc_hist, queue_hist, exit_hist>>

\* lines 111-116; queue.size() is read without the lock
adjust_sleep_time(st, last_size, size) ==
    IF last_size < size
    THEN st + SleepStep
    ELSE IF st - SleepStep < 0 THEN SleepStep ELSE st - SleepStep

\* what queue.size() can give when read without the lock: the length, or,
\* while the consume thread is moving the queue away, anything up to it
unlocked_size(q, pc) == IF pc = "c_capture" THEN 0..Len(q) ELSE {Len(q)}

Delay(size, t) == [size |-> size, delay |-> t]

queue_bp_compare ==
    /\ main_pc = "q_bp_compare"
    /\ \E size \in unlocked_size(transaction_metadata_queue, consume_pc) :
          /\ sleep_time' = adjust_sleep_time(sleep_time, last_queue_size, size)
          /\ delays' = Append(delays, Delay(size, sleep_time'))
    /\ main_pc' = "q_bp_last"
    /\ UNCHANGED <<cfg_vars, done, startup, store_vars, queue_vars, mtx, e,
                   last_queue_size, cons_vars, env_vars, proc_hist, enqueued,
                   sleeps, blocked_pushes, exit_hist>>

\* line 117; queue.size() is read without the lock
queue_bp_last ==
    /\ main_pc = "q_bp_last"
    /\ last_queue_size' \in unlocked_size(transaction_metadata_queue, consume_pc)
    /\ main_pc' = "q_sleep"
    /\ UNCHANGED <<cfg_vars, done, startup, store_vars, queue_vars, mtx, e,
                   sleep_time, cons_vars, env_vars, proc_hist, queue_hist,
                   exit_hist>>

\* line 118: sleep_for(sleep_time) returns
queue_sleep ==
    /\ main_pc = "q_sleep"
    /\ sleeps' = sleeps + 1
    /\ main_pc' = "q_relock"
    /\ UNCHANGED <<cfg_vars, done, startup, store_vars, queue_vars, mtx, e,
                   sleep_time, last_queue_size, cons_vars, env_vars, proc_hist,
                   enqueued, blocked_pushes, delays, exit_hist>>

\* queue() giving up after the wait: unlock without appending
after_wait_drop == "q_unlock"

\* lines 119-121: after the wait the entry is appended all the same
after_wait == "q_emplace"

\* line 119
queue_relock ==
    /\ main_pc = "q_relock"
    /\ mtx = "none"
    /\ mtx' = "main"
    /\ main_pc' = after_wait
    /\ UNCHANGED <<cfg_vars, done, startup, store_vars, queue_vars, e, sleep_time,
                   last_queue_size, cons_vars, env_vars, proc_hist, queue_hist,
                   exit_hist>>

\* line 121
queue_emplace ==
    /\ main_pc = "q_emplace"
    /\ transaction_metadata_queue' = Append(transaction_metadata_queue, e)
    /\ enqueued' = Append(enqueued, e.id)
    /\ blocked_pushes' = IF sleeps > 0 THEN blocked_pushes \cup {e.id}
                         ELSE blocked_pushes
    /\ main_pc' = "q_unlock"
    /\ UNCHANGED <<cfg_vars, done, startup, store_vars,
                   transaction_metadata_process_queue, mtx, e, sleep_time,
                   last_queue_size, cons_vars, env_vars, proc_hist, sleeps,
                   delays, exit_hist>>

\* line 122
queue_unlock ==
    /\ main_pc = "q_unlock"
    /\ mtx' = "none"
    /\ main_pc' = "q_notify"
    /\ UNCHANGED <<cfg_vars, done, startup, store_vars, queue_vars, e, sleep_time,
                   last_queue_size, cons_vars, env_vars, proc_hist, queue_hist,
                   exit_hist>>

\* line 123, and the return of accepted_transaction
queue_notify ==
    /\ main_pc = "q_notify"
    /\ consume_pc' = notify_one(consume_pc)
    /\ main_pc' = IF startup THEN "initialized" ELSE "running"
    /\ e' = NoEvent
    /\ UNCHANGED <<cfg_vars, done, startup, store_vars, queue_vars, mtx,
                   sleep_time, last_queue_size, transaction_metadata_size,
                   env_vars, proc_hist, queue_hist, exit_hist>>

----------------------------------------------------------------------------
(* consume_blocks : consume thread *)

\* line 149: boost::mutex::scoped_lock lock(mtx)
consume_lock ==
    /\ consume_pc = "c_lock"
    /\ mtx = "none"
    /\ mtx' = "consume"
    /\ consume_pc' = "c_pred"
    /\ UNCHANGED <<cfg_vars, done, startup, store_vars, queue_vars, main_vars,
                   transaction_metadata_size, env_vars, proc_hist, queue_hist,
                   exit_hist>>

\* lines 150-151: the test of the wait loop, with the lock held
consume_pred ==
    /\ consume_pc = "c_pred"
    /\ consume_pc' = IF transaction_metadata_queue = <<>> /\ ~done
                     THEN "c_wait" ELSE "c_capture"
    /\ UNCHANGED <<cfg_vars, done, startup, store_vars, queue_vars, mtx, main_vars,
                   transaction_metadata_size, env_vars, proc_hist, queue_hist,
                   exit_hist>>

\* line 152: condition.wait(lock) releases the lock and blocks
consume_wait ==
    /\ consume_pc = "c_wait"
    /\ mtx' = "none"
    /\ consume_pc' = "c_blocked"
    /\ UNCHANGED <<cfg_vars, done, startup, store_vars, queue_vars, main_vars,
                   transaction_metadata_size, env_vars, proc_hist, queue_hist,
                   exit_hist>>

\* line 152: a wait may also end without a notify
spurious_wakeup ==
    /\ consume_pc = "c_blocked"
    /\ consume_pc' = "c_wake"
    /\ UNCHANGED <<cfg_vars, done, startup, store_vars, queue_vars, mtx, main_vars,
                   transaction_metadata_size, env_vars, proc_hist, queue_hist,
                   exit_hist>>

\* line 152: the woken wait takes the lock again and returns
consume_wake ==
    /\ consume_pc = "c_wake"
    /\ mtx = "none"
    /\ mtx' = "consume"
    /\ consume_pc' = "c_pred"
    /\ UNCHANGED <<cfg_vars, done, startup, store_vars, queue_vars, main_vars,
                   transaction_metadata_size, env_vars, proc_hist, queue_hist,
                   exit_hist>>

\* the capture copying the pending queue and leaving it as it is
consume_capture_copy ==
    /\ consume_pc = "c_capture"
    /\ transaction_metadata_size' = Len(transaction_metadata_queue)
    /\ IF Len(transaction_metadata_queue) > 0
       THEN /\ transaction_metadata_process_queue' = transaction_metadata_queue
            /\ UNCHANGED transaction_metadata_queue
       ELSE UNCHANGED queue_vars
    /\ consume_pc' = "c_unlock"
    /\ UNCHANGED <<cfg_vars, done, startup, store_vars, mtx, main_vars, env_vars,
                   proc_hist, queue_hist, exit_hist>>

\* lines 156-160: capture for processing
consume_capture ==
    /\ consume_pc = "c_capture"
    /\ transaction_metadata_size' = Len(transaction_metadata_queue)
    /\ IF Len(transaction_metadata_queue) > 0
       THEN /\ transaction_metadata_process_queue' = transaction_metadata_queue
            /\ transaction_metadata_queue' = <<>>
       ELSE UNCHANGED queue_vars
    /\ consume_pc' = "c_unlock"
    /\ UNCHANGED <<cfg_vars, done, startup, store_vars, mtx, main_vars, env_vars,
                   proc_hist, queue_hist, exit_hist>>

\* line 162 (the log lines 166-171 change nothing)
consume_unlock ==
    /\ consume_pc = "c_unlock"
    /\ mtx' = "none"
    /\ consume_pc' = "c_process"
    /\ UNCHANGED <<cfg_vars, done, startup, store_vars, queue_vars, main_vars,
                   transaction_metadata_size, env_vars, proc_hist, queue_hist,
                   exit_hist>>

\* lines 174-176: process the front of the working batch; an exception
\* that escapes is caught at 186-192, where the thread ends
consume_process ==
    /\ consume_pc = "c_process"
    /\ IF transaction_metadata_process_queue # <<>>
       THEN /\ Process("consume", Head(transaction_metadata_process_queue))
            /\ IF ProcResult(Head(transaction_metadata_process_queue)).escaped
               THEN /\ consume_pc' = "c_done"
                    /\ exit_kind' = "exception"
               ELSE /\ consume_pc' = "c_pop"
                    /\ UNCHANGED exit_kind
       ELSE /\ consume_pc' = "c_break"
            /\ UNCHANGED <<store_vars, proc_hist, exit_kind>>
    /\ UNCHANGED <<cfg_vars, done, startup, queue_vars, mtx, main_vars,
                   transaction_metadata_size, env_vars, queue_hist,
                   pending_at_done>>

\* pop_back in place of pop_front
pop_back(q) == SubSeq(q, 1, Len(q) - 1)

pop_front(q) == Tail(q)

\* line 177
consume_pop ==
    /\ consume_pc = "c_pop"
    /\ transaction_metadata_process_queue' =
           pop_front(transaction_metadata_process_queue)
    /\ consume_pc' = "c_process"
    /\ UNCHANGED <<cfg_vars, done, startup, store_vars, transaction_metadata_queue,
                   mtx, main_vars, transaction_metadata_size, env_vars, proc_hist,
                   queue_hist, exit_hist>>

\* the loop left as soon as done is set
break_on_done(size, d) == d

\* lines 180-181: if( transaction_metadata_size == 0 && done )
break_loop(size, d) == size = 0 /\ d

\* lines 180-185
consume_break ==
    /\ consume_pc = "c_break"
    /\ IF break_loop(transaction_metadata_size, done)
       THEN /\ consume_pc' = "c_done"
            /\ exit_kind' = "graceful"
       ELSE /\ consume_pc' = "c_lock"
            /\ UNCHANGED exit_kind
    /\ UNCHANGED <<cfg_vars, done, startup, store_vars, queue_vars, mtx, main_vars,
                   transaction_metadata_size, env_vars, proc_hist, queue_hist,
                   pending_at_done>>

----------------------------------------------------------------------------
(* plugin_shutdown and ~filter_mongo_db_plugin_impl : main thread *)

\* lines 643-645 and 490
plugin_shutdown ==
    /\ main_pc \in {"constructed", "initialized", "init_failed", "running"}
    /\ accepted_transaction_connection' = FALSE
    /\ main_pc' = IF ~startup THEN "d_done" ELSE "destroyed"
    /\ UNCHANGED <<options, configured, wipe_database_on_startup, start_block_num,
                   start_block_reached, filter_contract, queue_size, done, startup,
                   store_vars, queue_vars, mtx, e, sleep_time, last_queue_size,
                   cons_vars, env_vars, proc_hist, queue_hist, exit_hist>>

\* line 493: done = true
shutdown_done ==
    /\ main_pc = "d_done"
    /\ done' = TRUE
    /\ pending_at_done' = Len(transaction_metadata_queue)
                            + Len(transaction_metadata_process_queue)
    /\ main_pc' = "d_notify"
    /\ UNCHANGED <<cfg_vars, startup, store_vars, queue_vars, mtx, e, sleep_time,
                   last_queue_size, cons_vars, env_vars, proc_hist, queue_hist,
                   exit_kind>>

\* line 494: condition.notify_one()
shutdown_notify ==
    /\ main_pc = "d_notify"
    /\ consume_pc' = notify_one(consume_pc)
    /\ main_pc' = "d_join"
    /\ UNCHANGED <<cfg_vars, done, startup, store_vars, queue_vars, mtx, e,
                   sleep_time, last_queue_size, transaction_metadata_size,
                   env_vars, proc_hist, queue_hist, exit_hist>>

\* line 496: consume_thread.join() returns once the thread has ended
shutdown_join ==
    /\ main_pc = "d_join"
    /\ consume_pc = "c_done"
    /\ main_pc' = "destroyed"
    /\ UNCHANGED <<cfg_vars, done, startup, store_vars, queue_vars, mtx, e,
                   sleep_time, last_queue_size, cons_vars, env_vars, proc_hist,
                   queue_hist, exit_hist>>

----------------------------------------------------------------------------
(* Specifications *)

\* transactions and events of the queue specification
QTxs == {<<SetAbiAlice, AliceXfer>>}
QFaults == {"none", "bulk_throw"}
QEvents == {Event(next_id, acts, f, head_block_num) : acts \in QTxs, f \in QFaults}

QOptions ==
    {Options(uri, replay, wipe, qs, 0, <<"alice">>) :
        uri \in BOOLEAN, replay \in BOOLEAN, wipe \in BOOLEAN,
        qs \in 0..MaxQueueSize}

Init ==
    /\ ConstructedConfig
    /\ ConstructedRest
    /\ main_pc = "constructed"
    /\ options \in QOptions
    /\ accounts \in InitialAccounts
    /\ filter_coll = InitialFilter(accounts)

chain_accepts ==
    \E ev \in QEvents : next_id <= MaxEvents /\ accepted_transaction(ev)

\* the steps of the main thread other than accepting a transaction
MainStep ==
    \/ plugin_initialize
    \/ plugin_startup
    \/ plugin_startup_flag
    \/ queue_lock
    \/ queue_bp_unlock
    \/ queue_bp_notify
    \/ queue_bp_compare
    \/ queue_bp_last
    \/ queue_sleep
    \/ queue_relock
    \/ queue_emplace
    \/ queue_unlock
    \/ queue_notify
    \/ plugin_shutdown
    \/ shutdown_done
    \/ shutdown_notify
    \/ shutdown_join

ConsumeStep ==
    \/ consume_lock
    \/ consume_pred
    \/ consume_wait
    \/ consume_wake
    \/ consume_capture
    \/ consume_unlock
    \/ consume_process
    \/ consume_pop
    \/ consume_break

Next == chain_accepts \/ MainStep \/ ConsumeStep \/ spurious_wakeup

Spec == Init /\ [][Next]_vars

\* The transaction-processing specification: the plugin has been
\* initialized on an empty store and is in its startup phase, where
\* accepted_transaction processes each transaction in the caller.
TxTxs == SeqsUpTo(TxActions, MaxActions)
TxFaults == {"none", "bulk_fail"}
TxEvents == {Event(next_id, acts, f, h) :
                acts \in TxTxs, f \in TxFaults, h \in head_block_num..MaxHeight}

TxOptions ==
    {Options(TRUE, FALSE, FALSE, 0, h, fc) :
        h \in 0..MaxHeight, fc \in {<<>>, <<"alice">>}}

\* the action types an abi set for the system account declares
AbiSys == {newaccount, setabi}

\* the stores the plugin may be initialized on: an empty one, where init()
\* inserts the system account, and one where a previous run has saved the
\* system account's abi
TxAccounts ==
    {init(<<>>),
     <<[name |-> system_account_name, has_abi |-> TRUE, abi |-> AbiSys]>>}

\* the state plugin_initialize leaves, given these options and such a store
InitTx ==
    /\ options \in TxOptions
    /\ configured = TRUE
    /\ wipe_database_on_startup = FALSE
    /\ start_block_num = options.block_start
    /\ start_block_reached = (options.block_start = 0)
    /\ filter_contract = options.filter_contract
    /\ queue_size = options.queue_size
    /\ accepted_transaction_connection = TRUE
    /\ accounts \in TxAccounts
    /\ filter_coll = <<>>
    /\ main_pc = "initialized"
    /\ ConstructedRest

tx_accepts ==
    \E ev \in TxEvents : next_id <= MaxTxs /\ accepted_transaction(ev)

NextTx == tx_accepts

TxSpec == InitTx /\ [][NextTx]_vars

\* The decoding specification: the plugin has been initialized with output
\* enabled on a store that already holds accounts, and is in its startup
\* phase; each accepted transaction carries one action.
StoredAccount(n) ==
    {<<>>, <<AccountDoc(n)>>, <<[name |-> n, has_abi |-> TRUE, abi |-> AbiT]>>,
     <<[name |-> n, has_abi |-> TRUE, abi |-> {}]>>}

DecodeAccounts ==
    {init(a \o b \o c) : a \in StoredAccount(system_account_name),
                          b \in StoredAccount("alice"),
                          c \in StoredAccount("bob")}

InitDecode ==
    /\ options = Options(TRUE, FALSE, FALSE, 0, 0, <<"alice">>)
    /\ configured = TRUE
    /\ wipe_database_on_startup = FALSE
    /\ start_block_num = 0
    /\ start_block_reached = TRUE
    /\ filter_contract = <<"alice">>
    /\ queue_size = 0
    /\ accepted_transaction_connection = TRUE
    /\ accounts \in DecodeAccounts
    /\ filter_coll = <<>>
    /\ main_pc = "initialized"
    /\ ConstructedRest

decode_accepts ==
    \E act \in AllActions :
        /\ next_id <= MaxTxs
        /\ accepted_transaction(Event(next_id, <<act>>, "none", head_block_num))

NextDecode == decode_accepts

DecodeSpec == InitDecode /\ [][NextDecode]_vars

\* The queue specification with the scheduling the threads have: a thread
\* that can take its next step eventually takes it.  Nothing obliges the
\* chain to accept another transaction, the owner to start or shut down the
\* plugin, or a wait to end without a notify.
MainProgress ==
    \/ plugin_startup_flag
    \/ queue_lock
    \/ queue_bp_unlock
    \/ queue_bp_notify
    \/ queue_bp_compare
    \/ queue_bp_last
    \/ queue_sleep
    \/ queue_relock
    \/ queue_emplace
    \/ queue_unlock
    \/ queue_notify
    \/ shutdown_done
    \/ shutdown_notify
    \/ shutdown_join

\* the plugin configured, on an empty store
FairOptions == {Options(TRUE, FALSE, FALSE, qs, 0, <<"alice">>) : qs \in 0..MaxQueueSize}

InitFair ==
    /\ ConstructedConfig
    /\ ConstructedRest
    /\ main_pc = "constructed"
    /\ options \in FairOptions
    /\ accounts = <<>>
    /\ filter_coll = <<>>

fair_accepts ==
    \E ev \in QEvents : next_id <= MaxFairEvents /\ accepted_transaction(ev)

NextFair == fair_accepts \/ MainStep \/ ConsumeStep \/ spurious_wakeup

FairSpec ==
    InitFair /\ [][NextFair]_vars /\ WF_vars(MainProgress) /\ WF_vars(ConsumeStep)

----------------------------------------------------------------------------
(* Properties *)

Ids(q) == [i \in 1..Len(q) |-> q[i].id]

IsConsumed(p) == p.by = "consume"
IsInline(p) == p.by = "main"

\* ids the consume thread has passed to process_accepted_transaction, in order
ConsumedIds == Ids(SelectSeq(processed, IsConsumed))

\* ids processed in the caller of accepted_transaction
InlineIds == {processed[i].id : i \in {j \in 1..Len(processed) : IsInline(processed[j])}}

SeqSet(q) == {q[i] : i \in 1..Len(q)}

\* the part of the working batch not yet processed
Unprocessed ==
    IF consume_pc = "c_pop"
    THEN Tail(transaction_metadata_process_queue)
    ELSE transaction_metadata_process_queue

\* C1: the consume thread processes the enqueued events in the order of
\* their enqueueing, each exactly once: at every moment the ids it has
\* processed, followed by the unprocessed rest of its working batch,
\* followed by the pending queue, are exactly the ids enqueued, in order,
\* and these are in the order the chain accepted them.
C1_FifoExactlyOnce ==
    /\ ConsumedIds \o Ids(Unprocessed) \o Ids(transaction_metadata_queue) = enqueued
    /\ \A i, j \in 1..Len(enqueued) : i < j => enqueued[i] < enqueued[j]

\* two events processed by the consume thread while another is pending:
\* more than one batch swap
C1_Witness ==
    /\ Len(ConsumedIds) >= 2
    /\ Len(transaction_metadata_queue) >= 1

\* ids whose accepted_transaction took the queue() branch
QueuedCalls == (1..(next_id - 1)) \ InlineIds

InQueueCall ==
    main_pc \in {"q_lock", "q_bp_unlock", "q_bp_notify", "q_bp_compare",
                 "q_bp_last", "q_sleep", "q_relock", "q_emplace"}

\* C2 (safety part): queue() sleeps at most once per call; when
\* accepted_transaction has returned, every event given to queue() has
\* been appended, also the ones that had to wait; and when the consume
\* thread has ended, it has processed as many events as were submitted.
C2_NoDrop ==
    /\ sleeps <= 1
    /\ sleep_time <= 2 * SleepStep
    /\ blocked_pushes \subseteq SeqSet(enqueued)
    /\ SeqSet(enqueued) \cup (IF InQueueCall THEN {e.id} ELSE {}) = QueuedCalls
    /\ Len(enqueued) = Cardinality(SeqSet(enqueued))
    /\ consume_pc = "c_done" => Len(ConsumedIds) = Cardinality(QueuedCalls)

\* C2 (progress part): every event appended to the queue is eventually
\* processed by the consume thread: from some moment on, the events
\* processed are the events enqueued.
C2_EventuallyProcessed == <>[](ConsumedIds = enqueued)

\* C2: backpressure delays a submit once, never drops the event, and every
\* submitted event is eventually processed.
C2_Backpressure == []C2_NoDrop /\ C2_EventuallyProcessed

\* an event has just been appended after a wait, to a queue that is then
\* longer than the target size
C2_Witness ==
    /\ main_pc = "q_unlock"
    /\ sleeps = 1
    /\ e.id \in blocked_pushes
    /\ Len(transaction_metadata_queue) > queue_size + 1

\* C3: when the consume thread has left its loop, the pending queue and
\* the working batch are empty and every enqueued event has been processed.
C3_DrainedAtExit ==
    consume_pc = "c_done" =>
        /\ transaction_metadata_queue = <<>>
        /\ transaction_metadata_process_queue = <<>>
        /\ SeqSet(enqueued) \subseteq SeqSet(ConsumedIds)

\* the thread has ended after a shutdown signalled with events pending
C3_Witness ==
    /\ consume_pc = "c_done"
    /\ pending_at_done > 0

\* C4: once the owner has set done and notified, the consume thread
\* eventually ends (so that join returns).
C4_ShutdownTerminates == (main_pc = "d_join") ~> (consume_pc = "c_done")

\* C5: no exception leaves process_accepted_transaction: none reaches the
\* handlers of consume_blocks or accepted_transaction, the consume thread
\* only ever ends gracefully, with nothing of its batch left, and no event
\* is processed twice.
C5_FailureContained ==
    /\ \A i \in 1..Len(processed) : ~processed[i].escaped
    /\ exit_kind # "exception"
    /\ consume_pc = "c_done" => transaction_metadata_process_queue = <<>>
    /\ \A i, j \in 1..Len(processed) :
          processed[i].id = processed[j].id => i = j

\* a failure in the caller, and a failure in the consume thread followed
\* by the processing of a later event
C5_Witness ==
    /\ \E i \in 1..Len(processed) : IsInline(processed[i]) /\ processed[i].caught
    /\ \E i, j \in 1..Len(processed) :
          /\ i < j
          /\ IsConsumed(processed[i]) /\ processed[i].caught
          /\ IsConsumed(processed[j])

\* C6: an event is processed in the caller exactly when startup is set at
\* the time, and then it is not queued; while startup is set nothing is
\* appended to the queue and accepted_transaction returns with the event
\* processed; an event accepted after startup was cleared is handed to
\* queue() and never processed in the caller.
C6_InlineOnlyDuringStartup ==
    /\ \A i \in 1..Len(processed) : IsInline(processed[i]) <=> processed[i].startup
    /\ InlineIds \cap SeqSet(enqueued) = {}
    /\ startup => /\ enqueued = <<>>
                  /\ transaction_metadata_queue = <<>>
                  /\ ~InQueueCall
                  /\ InlineIds = 1..(next_id - 1)
    /\ main_pc = "running" /\ ~startup =>
          \A id \in 1..(next_id - 1) : id \in InlineIds \/ id \in SeqSet(enqueued)

\* an event was processed in the caller and a later one was queued
C6_Witness ==
    /\ InlineIds # {}
    /\ enqueued # <<>>

----------------------------------------------------------------------------
(* Properties of transaction processing *)

\* the latest call of process_accepted_transaction
Handled == last.by # "none"
LastActs == last.ev.actions
LastDocs == last.res.out.action_array
LastWrites == last.res.out.writes

\* positions of the latest transaction's actions whose account is in the
\* configured filter set
Matching ==
    {k \in 1..Len(LastActs) :
        \E i \in 1..Len(filter_contract) : filter_contract[i] = LastActs[k].account}

\* C7: with output enabled, a transaction with no action of a filtered
\* account issues no bulk write; any other issues exactly one, issued when
\* a document has been built for each of its actions, and holding exactly
\* the documents of the actions of filtered accounts, in transaction order.
C7_FilteredBulkWrite ==
    Handled /\ last.reached =>
        /\ Len(LastWrites) <= 1
        /\ Matching = {} => LastWrites = <<>>
        /\ Matching # {} =>
              /\ Len(LastWrites) = 1
              /\ Len(LastDocs) = Len(LastActs)
              /\ Len(LastWrites[1]) = Cardinality(Matching)
              /\ \A i \in 1..Len(LastWrites[1]) :
                    /\ LastWrites[1][i].action_num + 1 \in Matching
                    /\ LastWrites[1][i] = LastDocs[LastWrites[1][i].action_num + 1]
                    /\ LastWrites[1][i].account =
                          LastActs[LastWrites[1][i].action_num + 1].account
              /\ \A i, j \in 1..Len(LastWrites[1]) :
                    i < j => LastWrites[1][i].action_num < LastWrites[1][j].action_num
        /\ last.res.out.stored = IF Matching # {} /\ last.ev.fault = "none"
                                 THEN LastWrites[1] ELSE <<>>

\* a transaction with an action of a filtered account and an action of
\* another account: one write of one document
C7_Witness ==
    /\ Handled /\ last.reached
    /\ Matching # {}
    /\ Cardinality(Matching) < Len(LastActs)
    /\ Len(LastWrites) = 1
    /\ Len(LastWrites[1]) = 1

\* the accounts collection after update_account has been applied to accts
\* for each of acts in turn
RECURSIVE RegistryAfter(_, _)
RegistryAfter(accts, acts) ==
    IF acts = <<>> THEN accts
    ELSE RegistryAfter(update_account(accts, Head(acts)), Tail(acts))

\* C8: while output is not enabled, processing a transaction builds no
\* document and issues no write, nothing reaches the filter collection,
\* and the accounts collection is changed as it is with output enabled.
C8_GatedStillUpdatesRegistry ==
    Handled /\ ~last.reached =>
        /\ LastDocs = <<>>
        /\ LastWrites = <<>>
        /\ last.res.out.stored = <<>>
        /\ filter_coll = <<>>
        /\ accounts = RegistryAfter(last.pre, LastActs)

\* with output not enabled, a transaction has created an account and
\* attached a schema to it
C8_Witness ==
    /\ Handled /\ ~last.reached
    /\ Len(accounts) > Len(last.pre)
    /\ \E i \in 1..Len(accounts) : accounts[i].has_abi /\ i > Len(last.pre)

\* C9: a transaction accepted at or above the configured start height,
\* with an action of a filtered account and no store failure, has that
\* action's document persisted.
C9_OutputEnabledAtStartHeight ==
    Handled /\ last.ev.height >= start_block_num /\ last.ev.fault = "none"
           /\ Matching # {}
        => /\ Len(last.res.out.stored) = Cardinality(Matching)
           /\ last.res.out.stored # <<>>

PayloadKeys == {"data", "hex_data"}

PayloadFields(doc) == {i \in 1..Len(doc.payload) : doc.payload[i].key \in PayloadKeys}

\* C10: every action document built has exactly one payload field, which
\* is either data or hex_data.
C10_ExactlyOnePayload ==
    Handled =>
        /\ Len(LastDocs) = Len(LastActs)
        /\ \A k \in 1..Len(LastDocs) :
              /\ Cardinality(PayloadFields(LastDocs[k])) = 1
              /\ Len(LastDocs[k].payload) = 1

\* a setabi whose embedded abi does not unpack, and whose decoding with
\* the system account's stored abi fails too, ends with hex_data
C10_Witness ==
    /\ Handled
    /\ LastActs = <<SetAbiGarb>>
    /\ LastDocs[1].payload = <<hex_data>>

\* the accounts collection as add_data sees it for the k-th action of the
\* last transaction: update_account has run for actions 1..k
RegistryAt(k) == RegistryAfter(last.pre, SubSeq(LastActs, 1, k))

\* the account is absent from accts, or its document carries no abi
NoSchema(accts, n) ==
    \/ find_account(accts, n) = 0
    \/ ~accts[find_account(accts, n)].has_abi

\* a newaccount or setabi of the system account that unpacks with the
\* fixed layout compiled into the plugin
FixedLayoutDecoded(act) ==
    /\ act.account = system_account_name
    /\ \/ act.name = newaccount /\ act.payload = "ok"
       \/ act.name = setabi /\ act.payload # "bad" /\ act.abi_raw = "ok"

\* C11 as stated: an action of an account that has no schema always gets
\* the hex_data payload, never a structured one.
C11_NoSchemaAlwaysHex ==
    Handled =>
        \A k \in 1..Len(LastDocs) :
            NoSchema(RegistryAt(k), LastActs[k].account)
                => LastDocs[k].payload = <<hex_data>>

\* C11 amended: an action of an account that has no schema gets the
\* hex_data payload, unless it is a newaccount or setabi of the system
\* account that the fixed layout decodes; that one gets structured data.
C11_NoSchemaHexUnlessFixedLayout ==
    Handled =>
        \A k \in 1..Len(LastDocs) :
            NoSchema(RegistryAt(k), LastActs[k].account) =>
                IF FixedLayoutDecoded(LastActs[k])
                THEN LastDocs[k].payload[1].key = "data"
                ELSE LastDocs[k].payload = <<hex_data>>

\* an action of an account that is registered without an abi, with bytes
\* that would fit the type, has been given hex_data
C11_Witness ==
    /\ Handled
    /\ LastActs = <<BobXfer>>
    /\ find_account(last.pre, "bob") # 0
    /\ NoSchema(last.pre, "bob")
    /\ LastDocs[1].payload = <<hex_data>>

\* a setabi of the system account whose bytes unpack, whose abi unpacks,
\* and whose abi converts to a document
WellFormedSetAbi(act) ==
    /\ act.account = system_account_name
    /\ act.name = setabi
    /\ act.payload = "ok"
    /\ act.abi_raw = "ok"

\* the abi stored for account n in accts; {} if n has no document or no abi
StoredAbi(accts, n) ==
    IF NoSchema(accts, n) THEN {} ELSE accts[find_account(accts, n)].abi

\* positions of the last transaction after which no later well-formed
\* setabi names the same account
LastSetAbi(k) ==
    \A j \in (k+1)..Len(LastActs) :
        WellFormedSetAbi(LastActs[j]) => LastActs[j].arg # LastActs[k].arg

\* C12: when a well-formed setabi for account A has been processed, A has
\* a document that carries that abi, whether or not A had a document
\* before; and with output enabled every action of an account whose stored
\* abi declares the action's type and fits its bytes -- those after the
\* setabi in the same transaction included -- gets a structured data
\* payload and not hex_data.
C12_SchemaSetTakesEffect ==
    Handled =>
        /\ \A k \in 1..Len(LastActs) :
              WellFormedSetAbi(LastActs[k]) =>
                  /\ ~NoSchema(accounts, LastActs[k].arg)
                  /\ LastSetAbi(k) =>
                        StoredAbi(accounts, LastActs[k].arg) = LastActs[k].abi
                  /\ \A j \in (k+1)..Len(LastDocs) :
                        /\ LastActs[j].account = LastActs[k].arg
                        /\ LastActs[j].name \in LastActs[k].abi
                        /\ LastActs[j].payload = "ok"
                        /\ LastSetAbi(k)
                        => LastDocs[j].payload[1].key = "data"
        /\ \A j \in 1..Len(LastDocs) :
              /\ LastActs[j].name \in StoredAbi(last.pre, LastActs[j].account)
              /\ LastActs[j].payload = "ok"
              => LastDocs[j].payload[1].key = "data"

\* one transaction sets the abi of the unknown account alice and then
\* carries an alice::transfer, which is decoded with that abi
C12_Witness ==
    /\ Handled /\ last.reached
    /\ LastActs = <<SetAbiAlice, AliceXfer>>
    /\ find_account(last.pre, "alice") = 0
    /\ StoredAbi(accounts, "alice") = AbiT
    /\ LastDocs[2].payload = <<Field("data", "generic", "alice")>>

\* C13: the accounts collection holds at most one document per account
\* name, whatever newaccount and setabi actions have been processed.
C13_OneRecordPerName ==
    \A i, j \in 1..Len(accounts) :
        accounts[i].name = accounts[j].name => i = j

\* a setabi of the system account whose bytes unpack but whose embedded
\* abi bytes do not
UndecodableSetAbi(act) ==
    /\ act.account = system_account_name
    /\ act.name = setabi
    /\ act.payload = "ok"
    /\ act.abi_raw = "garbage"

\* C14 as stated: processing a setabi whose abi bytes do not unpack leaves
\* the accounts collection as it was: no document created, none modified.
C14_UnpackFailureNoChange ==
    Handled =>
        /\ accounts = RegistryAt(Len(LastActs))
        /\ \A k \in 1..Len(LastActs) :
              UndecodableSetAbi(LastActs[k]) => RegistryAt(k) = RegistryAt(k-1)

\* C14 amended: processing a setabi whose abi bytes do not unpack modifies
\* no existing document and attaches no abi; when the named account has no
\* document, one without abi is appended for it, and nothing else changes.
C14_UnpackFailureOnlyEnsuresAccount ==
    Handled =>
        /\ accounts = RegistryAt(Len(LastActs))
        /\ \A k \in 1..Len(LastActs) :
              UndecodableSetAbi(LastActs[k]) =>
                  RegistryAt(k) =
                      IF find_account(RegistryAt(k-1), LastActs[k].arg) = 0
                      THEN Append(RegistryAt(k-1), AccountDoc(LastActs[k].arg))
                      ELSE RegistryAt(k-1)

\* an undecodable setabi for the unknown account alice has left a document
\* for alice that has no abi
C14_Witness ==
    /\ Handled
    /\ LastActs = <<SetAbiGarb>>
    /\ find_account(last.pre, "alice") = 0
    /\ accounts = Append(last.pre, AccountDoc("alice"))

\* the document at position i of the accounts collection has an abi that
\* it did not have before the last transaction
NewlySchemad(i) ==
    /\ accounts[i].has_abi
    /\ i <= Len(last.pre) => \/ ~last.pre[i].has_abi
                             \/ last.pre[i].abi # accounts[i].abi

\* C15: a processed transaction removes no account document (each keeps
\* its position and name), takes the abi away from none that had one, and
\* sets an abi only on the document that a well-formed setabi of that
\* transaction names and find_account finds in the collection.
C15_RegistryMonotone ==
    Handled =>
        /\ Len(accounts) >= Len(last.pre)
        /\ \A i \in 1..Len(last.pre) :
              /\ accounts[i].name = last.pre[i].name
              /\ last.pre[i].has_abi => accounts[i].has_abi
        /\ \A i \in 1..Len(accounts) :
              NewlySchemad(i) =>
                  /\ i = find_account(accounts, accounts[i].name)
                  /\ \E k \in 1..Len(LastActs) :
                        /\ WellFormedSetAbi(LastActs[k])
                        /\ LastActs[k].arg = accounts[i].name
                        /\ LastActs[k].abi = accounts[i].abi

\* a newaccount for bob, who has a document with an abi, has left that
\* document and its abi in place
C15_Witness ==
    /\ Handled
    /\ LastActs = <<NewBob>>
    /\ ~NoSchema(last.pre, "bob")
    /\ Len(accounts) = Len(last.pre) + 1
    /\ StoredAbi(accounts, "bob") = StoredAbi(last.pre, "bob")

\* C16: plugin_initialize's init() inserts the system account's document
\* exactly when the accounts collection it finds (after the drop, if one
\* was done) is empty; a collection that holds documents, with or without
\* one for the system account, is left as it is; and init() applied to
\* the result changes nothing.
C16_InitInsertsRootIffEmpty ==
    [][main_pc = "constructed" /\ main_pc' = "initialized" /\ options.uri =>
        LET found == IF wipe_database_on_startup' THEN <<>> ELSE accounts IN
        /\ accounts' = IF found = <<>> THEN <<AccountDoc(system_account_name)>>
                                        ELSE found
        /\ found # <<>> =>
              (find_account(accounts', system_account_name) # 0
                  <=> find_account(found, system_account_name) # 0)
        /\ init(accounts') = accounts']_vars

\* initialization has run on a collection that held bob but not the system
\* account: no document was added
C16_Witness ==
    /\ main_pc = "initialized" /\ configured
    /\ next_id = 1
    /\ accounts = <<AccountDoc("bob")>>
    /\ find_account(accounts, system_account_name) = 0

LastStored == last.res.out.stored

\* C17: with output enabled, the k-th action of a transaction (from 0)
\* gets action_num k; the documents are built in the order of the
\* actions, each decoded after update_account has run for the actions up
\* to it; and the documents of the bulk write, and those persisted, are
\* in that order too, with strictly increasing action_num.
C17_SequenceNumbersInOrder ==
    Handled /\ last.reached =>
        /\ Len(LastDocs) = Len(LastActs)
        /\ \A k \in 1..Len(LastDocs) :
              /\ LastDocs[k].action_num = k - 1
              /\ LastDocs[k].account = LastActs[k].account
              /\ LastDocs[k].name = LastActs[k].name
              /\ LastDocs[k].payload = add_data(RegistryAt(k), LastActs[k])
        /\ \A w \in 1..Len(LastWrites) :
              \A i, j \in 1..Len(LastWrites[w]) :
                  i < j => LastWrites[w][i].action_num < LastWrites[w][j].action_num
        /\ \A i \in 1..Len(LastStored) :
              LastStored[i] = LastDocs[LastStored[i].action_num + 1]
        /\ \A i, j \in 1..Len(LastStored) :
              i < j => LastStored[i].action_num < LastStored[j].action_num

\* a transaction of two actions of a filtered account: two documents
\* persisted, numbered 0 and 1
C17_Witness ==
    /\ Handled /\ last.reached
    /\ Len(LastActs) = 2
    /\ Len(LastStored) = 2
    /\ LastStored[1].action_num = 0
    /\ LastStored[2].action_num = 1

\* C18: plugin_initialize drops the two collections exactly when a replay
\* option and filter-mongodb-wipe are both given; with a replay option and
\* no filter-mongodb-wipe it fails with the collections as they were, the
\* accepted_transaction signal not connected and no consume thread, and
\* none of this changes afterwards; with filter-mongodb-wipe alone nothing
\* is dropped; and no later step removes a document.
C18_WipeOnlyOnConfirmedReplay ==
    [][/\ main_pc = "constructed" /\ main_pc' \in {"initialized", "init_failed"} =>
            /\ options.uri /\ options.replay /\ options.wipe =>
                  /\ main_pc' = "initialized"
                  /\ accounts' = <<AccountDoc(system_account_name)>>
                  /\ filter_coll' = <<>>
            /\ ~(options.uri /\ options.replay /\ options.wipe) =>
                  /\ filter_coll' = filter_coll
                  /\ accounts # <<>> => accounts' = accounts
            /\ options.uri /\ options.replay /\ ~options.wipe =>
                  /\ main_pc' = "init_failed"
                  /\ UNCHANGED store_vars
                  /\ ~accepted_transaction_connection'
                  /\ consume_pc' = "not_started"
       /\ main_pc = "init_failed" =>
            /\ UNCHANGED store_vars
            /\ ~accepted_transaction_connection'
            /\ consume_pc' = "not_started"
       /\ main_pc # "constructed" =>
            /\ Len(accounts') >= Len(accounts)
            /\ Len(filter_coll') >= Len(filter_coll)]_vars

\* a replay without filter-mongodb-wipe on a store that holds documents:
\* initialization has failed and left them, with no connection and no
\* consume thread
C18_Witness ==
    /\ main_pc = "init_failed"
    /\ options.replay /\ ~options.wipe
    /\ accounts = <<AccountDoc("bob")>>
    /\ filter_coll = <<PreviousDoc>>
    /\ ~accepted_transaction_connection
    /\ consume_pc = "not_started"

\* C19: over the successive sleeps of queue(), the sleep time is larger
\* than the previous one when the queue is found longer than at the
\* previous sleep, smaller (or at the minimum already) when it is not, and
\* it is never below the minimum, SleepStep.
C19_AdaptiveDelay ==
    \A i \in 1..Len(delays) :
        /\ delays[i].delay >= SleepStep
        /\ i > 1 =>
              IF delays[i].size > delays[i-1].size
              THEN delays[i].delay > delays[i-1].delay
              ELSE \/ delays[i].delay < delays[i-1].delay
                   \/ delays[i].delay = SleepStep

\* the main thread is about to read or write the pending queue
ProducerAtQueue == main_pc \in {"q_bp_compare", "q_bp_last", "q_emplace"}

\* the consume thread is about to read or write the pending queue
ConsumerAtQueue == consume_pc \in {"c_pred", "c_capture"}

\* C20: whenever the main thread or the consume thread is about to read
\* or write the pending queue -- the length reads of the backpressure
\* path included -- that thread holds mtx; so the main thread is never at
\* the queue while the consume thread is about to swap it.
C20_QueueAccessUnderLock ==
    /\ ProducerAtQueue => mtx = "main"
    /\ ConsumerAtQueue => mtx = "consume"
    /\ ~(ProducerAtQueue /\ consume_pc = "c_capture")

\* the consume thread has been created
ThreadStarted == consume_pc # "not_started"

\* the main thread can be inside process_accepted_transaction: it is where
\* accepted_transaction is called and startup is set
InlinePossible == main_pc \in {"initialized", "running"} /\ startup

\* the consume thread has, or has had, an event to process
ConsumerHasWork ==
    \/ transaction_metadata_queue # <<>>
    \/ transaction_metadata_process_queue # <<>>
    \/ ConsumedIds # <<>>

\* C21: processing in the caller and processing by the consume thread do
\* not overlap: once the consume thread exists the main thread is never
\* where it can process in the caller (startup is set only inside
\* plugin_startup then); while processing in the caller is possible the
\* consume thread has no event and has processed none; and in the order
\* of processing every event processed in the caller comes before every
\* event processed by the consume thread.
C21_InlineAndConsumerDisjoint ==
    /\ ThreadStarted => ~InlinePossible
    /\ ThreadStarted /\ startup => main_pc = "startup_flag"
    /\ InlinePossible => ~ConsumerHasWork
    /\ \A i, j \in 1..Len(processed) :
          IsConsumed(processed[i]) /\ IsInline(processed[j]) => j < i

\* an event has been processed in the caller, and later the consume
\* thread is about to process another
C21_Witness ==
    /\ InlineIds # {}
    /\ consume_pc = "c_process"
    /\ transaction_metadata_process_queue # <<>>

\* the consume thread is in the loop of lines 174-178
ConsumerProcessing == consume_pc \in {"c_process", "c_pop"}

\* at the capture the consume thread holds mtx and its working batch is
\* empty; while it processes the batch it does not hold mtx
C22_CaptureState ==
    /\ consume_pc = "c_capture" =>
          /\ mtx = "consume"
          /\ transaction_metadata_process_queue = <<>>
    /\ ConsumerProcessing => mtx # "consume"

\* the capture step moves the whole pending queue into the working batch,
\* leaves the pending queue empty, and keeps mtx
C22_CaptureStep ==
    consume_pc = "c_capture" /\ consume_pc' # "c_capture" =>
        /\ transaction_metadata_process_queue' = transaction_metadata_queue
        /\ transaction_metadata_queue' = <<>>
        /\ transaction_metadata_size' = Len(transaction_metadata_queue)
        /\ mtx' = "consume"

\* C22: the consume thread captures with mtx held and with an empty
\* working batch, so that no unprocessed event is overwritten; the capture
\* moves the whole pending queue into the working batch and leaves the
\* pending queue empty; and mtx is not held while the batch is processed.
C22_CaptureSwapsWholeQueue == []C22_CaptureState /\ [][C22_CaptureStep]_vars

\* while the consume thread is in the middle of a batch, the main thread
\* holds mtx and has just appended an event to the pending queue
C22_Witness ==
    /\ ConsumerProcessing
    /\ Unprocessed # <<>>
    /\ main_pc = "q_unlock"
    /\ mtx = "main"
    /\ transaction_metadata_queue # <<>>

\* C23 as stated: the document of a setabi of the system account whose
\* bytes unpack but whose embedded abi does not carries a structured data
\* payload that names the account the abi was set for, and not hex_data;
\* and a document is built for every action of the transaction.
C23_UndecodableAbiStillStructured ==
    Handled /\ last.reached =>
        /\ Len(LastDocs) = Len(LastActs)
        /\ \A k \in 1..Len(LastDocs) :
              UndecodableSetAbi(LastActs[k]) =>
                  /\ LastDocs[k].payload # <<hex_data>>
                  /\ LastDocs[k].payload[1].key = "data"

\* C23 amended: for such a setabi the fixed layout appends nothing; the
\* action is decoded with the system account's stored abi when that
\* declares setabi, and gets hex_data when it does not (or when the system
\* account has no abi); either way a document is built for every action
\* of the transaction, each decoded as add_data decodes it.
C23_UndecodableAbiFallsThrough ==
    Handled /\ last.reached =>
        /\ Len(LastDocs) = Len(LastActs)
        /\ \A k \in 1..Len(LastDocs) :
              /\ LastDocs[k].payload = add_data(RegistryAt(k), LastActs[k])
              /\ UndecodableSetAbi(LastActs[k]) =>
                    LastDocs[k].payload =
                        IF setabi \in StoredAbi(RegistryAt(k), system_account_name)
                        THEN <<Field("data", "generic", system_account_name)>>
                        ELSE <<hex_data>>

\* the system account has no abi: the setabi with the undecodable abi got
\* hex_data, and the action after it was decoded all the same
C23_Witness ==
    /\ Handled /\ last.reached
    /\ LastActs = <<SetAbiGarb, BobXfer>>
    /\ NoSchema(last.pre, system_account_name)
    /\ LastDocs[1].payload = <<hex_data>>
    /\ Len(LastDocs) = 2

\* the bulk write of the last transaction was executed and gave no result
WriteFailed ==
    /\ Handled /\ last.reached
    /\ Matching # {}
    /\ last.ev.fault = "bulk_fail"

\* after a failed bulk write: it was issued once, nothing of it is in the
\* filter collection, the accounts collection is what update_account made
\* of it for the transaction's actions, and no exception left the call;
\* and every transaction accepted so far has been processed
C24_FailedWriteState ==
    /\ Len(processed) = next_id - 1
    /\ WriteFailed =>
          /\ Len(LastWrites) = 1
          /\ ~last.res.out.result_ok
          /\ LastStored = <<>>
          /\ \A i \in 1..Len(filter_coll) : filter_coll[i].trx_id # last.ev.id
          /\ accounts = RegistryAfter(last.pre, LastActs)
          /\ ~last.res.caught /\ ~last.res.escaped

\* the filter collection only ever grows by documents of the transaction
\* being processed in that step, and only when its write did not fail
C24_NoLaterWrite ==
    filter_coll' # filter_coll =>
        /\ Len(filter_coll') > Len(filter_coll)
        /\ SubSeq(filter_coll', 1, Len(filter_coll)) = filter_coll
        /\ last'.ev.id = next_id
        /\ last'.ev.fault = "none"
        /\ \A i \in (Len(filter_coll) + 1)..Len(filter_coll') :
              filter_coll'[i].trx_id = next_id

\* C24: a bulk write that fails is issued once and never again, also not
\* while later transactions are processed; the accounts collection stays
\* as the transaction's newaccount and setabi actions left it; and the
\* transactions that follow are processed.
C24_FailedWriteNotRetried == []C24_FailedWriteState /\ [][C24_NoLaterWrite]_vars

\* the second transaction sets alice's abi and carries an action of alice;
\* its write failed, and alice's document and abi are in the collection
C24_Witness ==
    /\ WriteFailed
    /\ Len(processed) = 2
    /\ LastActs = <<SetAbiAlice, AliceXfer>>
    /\ NoSchema(last.pre, "alice")
    /\ StoredAbi(accounts, "alice") = AbiT
    /\ filter_coll = <<>>

====
